---------------------------- MODULE Spec2Model ----------------------------
(***************************************************************************)
(* Model of the LangGraph workflow of backend/server.py: one AgentState    *)
(* record carried through intent_recognition, sheets_parsing,              *)
(* ip_allocation, dns_creation and response_formatter, the routing         *)
(* functions of create_workflow, the IP allocator, and the response that   *)
(* chat_endpoint builds from the final state.  ConcurrentSpec runs several *)
(* requests, each with its own AgentState, interleaved at their waits.     *)
(*                                                                         *)
(* Python values are represented as follows.  None of an Optional[str] is  *)
(* the string NoneStr, a missing dictionary key is Absent.  Text that the  *)
(* code builds with f-strings is a record of the format's name and the     *)
(* values interpolated into it.  IPv4 addresses are 32-bit integers.       *)
(***************************************************************************)
EXTENDS Integers, Sequences, FiniteSets, TLC

\* ------------------------------------------------------------------ bounds
\* largest number of console IPs a parsed sheet carries
MaxNodes == 5

\* number of requests served at the same time
MaxRequests == 2

\* ------------------------------------------------------- Python primitives
NoneStr == "None"
Absent == "<absent>"
EmptyStr == ""

\* truth value of an Optional[str] in `if not x`
Falsy(s) == s \in {NoneStr, EmptyStr}

\* dict.get(key, default) on a value that is Absent when the key is missing
DictGet(v, default) == IF v = Absent THEN default ELSE v

RECURSIVE Pow2(_)
Pow2(n) == IF n = 0 THEN 1 ELSE 2 * Pow2(n - 1)

AddressBits == 32

\* ------------------------------------------------------------ subnet values
\* a subnet field holds None, a string that is not a CIDR, or "a.b.c.d/p"
NoSubnet == [kind |-> "none", addr |-> 0, prefix |-> 0]
AbsentSubnet == [kind |-> "absent", addr |-> 0, prefix |-> 0]
NotASubnet == [kind |-> "text", addr |-> 0, prefix |-> 0]
Cidr(a, p) == [kind |-> "cidr", addr |-> a, prefix |-> p]

\* 10.0.0.0
BaseAddress == 167772160
\* 10.8.8.8, the first console IP of the sheets
ConsoleBase == 168298504

SubnetValues ==
    { NotASubnet,
      Cidr(BaseAddress, 29),
      Cidr(BaseAddress + 5, 30),
      Cidr(BaseAddress + 2, 31),
      Cidr(BaseAddress + 7, 32),
      Cidr(BaseAddress, 33) }

ClassifierSubnet == Cidr(BaseAddress + 64, 29)

\* ----------------------------------------------------------------- intents
Intents ==
    {"CREATE_CLUSTER", "CREATE_DNS_RECORD", "PARSE_SHEETS", "ALLOCATE_IPS",
     "GENERAL_CHAT"}

\* what the "intent" key of the classifier's JSON can hold
IntentReplies == Intents \cup {"SOMETHING_ELSE", NoneStr, Absent}

\* --------------------------------------------------------------- AgentState
NoSheetsData ==
    [present |-> FALSE, fqdn |-> Absent, subnet |-> AbsentSubnet,
     has_node_ips |-> FALSE, node_ips |-> << >>]

NoMessage == [kind |-> "empty", error |-> NoneStr, nodes |-> 0, records |-> 0]

AgentState ==
    [ intent |-> EmptyStr,
      sheets_url |-> NoneStr,
      sheets_data |-> NoSheetsData,
      dns_records |-> << >>,
      ip_allocations |-> << >>,
      fqdn |-> NoneStr,
      ip_address |-> NoneStr,
      subnet |-> NoSubnet,
      current_step |-> "initial",
      response_message |-> NoMessage,
      has_response_table |-> FALSE,
      response_table |-> << >>,
      workflow_progress |-> << >>,
      current_agent |-> EmptyStr,
      error |-> NoneStr ]

NoDetails == [intent |-> Absent, confidence |-> Absent]

\* add_progress_step assigning a new list instead of appending
add_progress_step_overwrite(s, agent_name, status, message, details, now) ==
    [s EXCEPT
        !.workflow_progress =
            << [agent |-> agent_name, status |-> status,
                message |-> message, timestamp |-> now,
                details |-> details] >>,
        !.current_agent = agent_name]

add_progress_step(s, agent_name, status, message, details, now) ==
    [s EXCEPT
        !.workflow_progress =
            Append(@, [agent |-> agent_name, status |-> status,
                       message |-> message, timestamp |-> now,
                       details |-> details]),
        !.current_agent = agent_name]

\* ------------------------------------------------- classifier (IntentRecognizer)
\* The model's reply to generate_content_async: the call raises, the text
\* holds no {...}, the {...} is not JSON, or it is a JSON object.
ClassifierJson ==
    [ kind : {"json"},
      intent : IntentReplies,
      google_sheets_url : {NoneStr, EmptyStr, "docs.google.com/spreadsheets/d/ID", "https://example.com/sheet.csv"},
      fqdn : {NoneStr, "test.example.com"},
      ip_address : {NoneStr, "1.2.3.4"},
      subnet : {NoSubnet, ClassifierSubnet},
      confidence : {Absent, "0.95"} ]

ClassifierFailure(k) ==
    [ kind |-> k, intent |-> Absent, google_sheets_url |-> NoneStr,
      fqdn |-> NoneStr, ip_address |-> NoneStr, subnet |-> NoSubnet,
      confidence |-> Absent ]

ClassifierReplies ==
    ClassifierJson \cup
    { ClassifierFailure(k) : k \in {"raise", "no_json", "bad_json"} }

\* the dictionary recognize_intent returns; a key it lacks reads as None
\* through dict.get, except "intent" and "confidence", which have defaults
IntentFallback ==
    [ intent |-> "GENERAL_CHAT", google_sheets_url |-> NoneStr,
      fqdn |-> NoneStr, ip_address |-> NoneStr, subnet |-> NoSubnet,
      confidence |-> "0.5" ]

\* recognize_intent answering a failure with an empty dictionary
recognize_intent_empty_fallback(reply) ==
    IF reply.kind = "json"
    THEN [ intent |-> reply.intent,
           google_sheets_url |-> reply.google_sheets_url,
           fqdn |-> reply.fqdn, ip_address |-> reply.ip_address,
           subnet |-> reply.subnet, confidence |-> reply.confidence ]
    ELSE [ intent |-> Absent, google_sheets_url |-> NoneStr,
           fqdn |-> NoneStr, ip_address |-> NoneStr, subnet |-> NoSubnet,
           confidence |-> Absent ]

recognize_intent(reply) ==
    IF reply.kind = "json"
    THEN [ intent |-> reply.intent,
           google_sheets_url |-> reply.google_sheets_url,
           fqdn |-> reply.fqdn, ip_address |-> reply.ip_address,
           subnet |-> reply.subnet, confidence |-> reply.confidence ]
    ELSE IntentFallback

\* ------------------------------------------------------- stage: intent
IntentAgent == "Intent Recognition Agent"

\* The stage suspends at `await intent_recognizer.recognize_intent(...)`:
\* intent_recognition_agent_begin is the code before the await,
\* intent_recognition_agent_resume the code after it.  recognize_intent
\* catches every exception and returns a dictionary, so the except clause of
\* the stage (lines 370-373) has no input that reaches it.
intent_recognition_agent_begin(s, now) ==
    add_progress_step(s, IntentAgent, "started",
        [text |-> "Analyzing user input to determine intent...",
         arg |-> EmptyStr], NoDetails, now)

\* the stage returning without its "completed" entry
intent_recognition_agent_resume_silent(s, reply, now) ==
    LET intent_result == recognize_intent(reply)
    IN  [s EXCEPT
           !.intent = DictGet(intent_result.intent, "GENERAL_CHAT"),
           !.sheets_url = intent_result.google_sheets_url,
           !.fqdn = intent_result.fqdn,
           !.ip_address = intent_result.ip_address,
           !.subnet = intent_result.subnet,
           !.current_step = "intent_recognized",
           !.current_agent = IntentAgent]

intent_recognition_agent_resume(s, reply, now) ==
    LET intent_result == recognize_intent(reply)
        s2 == [s EXCEPT
                 !.intent = DictGet(intent_result.intent, "GENERAL_CHAT"),
                 !.sheets_url = intent_result.google_sheets_url,
                 !.fqdn = intent_result.fqdn,
                 !.ip_address = intent_result.ip_address,
                 !.subnet = intent_result.subnet,
                 !.current_step = "intent_recognized"]
    IN  add_progress_step(s2, IntentAgent, "completed",
            [text |-> "Intent recognized: ", arg |-> s2.intent],
            [intent |-> s2.intent,
             confidence |-> DictGet(intent_result.confidence, "0.9")],
            now)

\* --------------------------------------------- sheets (GoogleSheetsManager)
DocsUrl == "docs.google.com/spreadsheets/d/ID"

\* outcome of one HTTP GET: the request raises, answers with a status other
\* than 200, answers 200 with HTML (text starting with '<'), or 200 with CSV
HttpOutcomes == {"exception", "http_error", "html", "csv"}

FetchError(why) == [kind |-> "error", text |-> why, origin |-> "none"]
SheetCsv == [kind |-> "csv", text |-> EmptyStr, origin |-> "sheet"]
\* the literal CSV text of lines 225-226
MockCsv == [kind |-> "csv", text |-> EmptyStr, origin |-> "mock"]

\* sheet_id is bound only for a docs.google.com/spreadsheets URL; using it
\* for another URL raises NameError, which the except clause turns into text
fetch_sheet_data(sheets_url, first, second) ==
    CASE first = "exception" -> FetchError("Error fetching sheet: exception")
      [] first = "http_error" -> FetchError("Error fetching sheet: HTTP status")
      [] first = "csv" -> SheetCsv
      [] first = "html" ->
            IF sheets_url # DocsUrl
            THEN FetchError("Error fetching sheet: exception")
            ELSE CASE second = "exception" ->
                          FetchError("Error fetching sheet: exception")
                   [] second = "csv" -> SheetCsv
                   [] OTHER -> MockCsv

\* a fetcher that asks again after any answer that is not CSV
FetchAttempts_retry_always(sheets_url, first) ==
    IF first # "csv" /\ sheets_url = DocsUrl THEN 2 ELSE 1

\* number of GET requests fetch_sheet_data issues
FetchAttempts(sheets_url, first) ==
    IF first = "html" /\ sheets_url = DocsUrl THEN 2 ELSE 1

\* console IPs 10.8.8.8, 10.8.8.9, ... of a sheet with n nodes
NodeIps(n) == [i \in 1..n |-> ConsoleBase + (i - 1)]

\* The model's reply to the parsing prompt.  A JSON reply is a dictionary
\* with any of the keys fqdn, subnet, node_ips.
ParseJson ==
    [ kind : {"json"},
      fqdn : {Absent, "cluster.example.com"},
      subnet : {AbsentSubnet, NoSubnet} \cup SubnetValues,
      has_node_ips : {TRUE},
      node_ips : { NodeIps(n) : n \in 0..MaxNodes } ]
    \cup
    [ kind : {"json"},
      fqdn : {Absent, "cluster.example.com"},
      subnet : {AbsentSubnet, NoSubnet} \cup SubnetValues,
      has_node_ips : {FALSE},
      node_ips : { << >> } ]

ParseFailure(k) ==
    [ kind |-> k, fqdn |-> Absent, subnet |-> AbsentSubnet,
      has_node_ips |-> FALSE, node_ips |-> << >> ]

ParseReplies == ParseJson \cup { ParseFailure(k) : k \in {"raise", "no_json", "bad_json"} }

\* parse_sheet_data: [error |-> text, data |-> dictionary]
parse_sheet_data(reply) ==
    CASE reply.kind = "json" ->
            [ error |-> Absent,
              data |-> [present |-> TRUE, fqdn |-> reply.fqdn,
                        subnet |-> reply.subnet,
                        has_node_ips |-> reply.has_node_ips,
                        node_ips |-> reply.node_ips] ]
      [] reply.kind = "no_json" ->
            [ error |-> "Could not parse sheet data", data |-> NoSheetsData ]
      [] OTHER ->
            [ error |-> "Parsing failed: exception", data |-> NoSheetsData ]

\* `not state.sheets_data`: None, or a dictionary without keys
SheetsDataFalsy(d) ==
    \/ ~d.present
    \/ d.fqdn = Absent /\ d.subnet = AbsentSubnet /\ ~d.has_node_ips

\* ------------------------------------------------------- stage: sheets
\* the stage without the `return state` of line 386: a fetch error is
\* stored and the text is parsed all the same
sheets_parsing_agent_no_return(s, first, second, reply) ==
    IF Falsy(s.sheets_url)
    THEN [s EXCEPT !.error = "No Google Sheets URL provided"]
    ELSE
    LET sheet_content == fetch_sheet_data(s.sheets_url, first, second)
        parsed == parse_sheet_data(reply)
    IN  IF parsed.error # Absent
        THEN [s EXCEPT !.error = parsed.error]
        ELSE [s EXCEPT
                !.error = IF sheet_content.kind = "error"
                          THEN sheet_content.text ELSE @,
                !.sheets_data = parsed.data,
                !.fqdn = DictGet(parsed.data.fqdn, s.fqdn),
                !.subnet = IF parsed.data.subnet = AbsentSubnet
                           THEN s.subnet ELSE parsed.data.subnet,
                !.current_step = "sheets_parsed"]

sheets_parsing_agent(s, first, second, reply) ==
    IF Falsy(s.sheets_url)
    THEN [s EXCEPT !.error = "No Google Sheets URL provided"]
    ELSE
    LET sheet_content == fetch_sheet_data(s.sheets_url, first, second)
        parsed == parse_sheet_data(reply)
    IN  IF sheet_content.kind = "error"
        THEN [s EXCEPT !.error = sheet_content.text]
        ELSE IF parsed.error # Absent
        THEN [s EXCEPT !.error = parsed.error]
        ELSE [s EXCEPT
                !.sheets_data = parsed.data,
                !.fqdn = DictGet(parsed.data.fqdn, s.fqdn),
                !.subnet = IF parsed.data.subnet = AbsentSubnet
                           THEN s.subnet ELSE parsed.data.subnet,
                !.current_step = "sheets_parsed"]

\* ------------------------------------------------ allocator (IPAllocationAgent)
Min(a, b) == IF a < b THEN a ELSE b

\* ipaddress.ip_network(subnet, strict=False) raises ValueError for text
\* that is not an address with an optional prefix of at most 32 bits
ValidCidr(subnet) ==
    subnet.kind = "cidr" /\ subnet.prefix \in 0..AddressBits

\* strict=False: the host bits of the address are masked away
NetworkAddress(subnet) ==
    subnet.addr - (subnet.addr % Pow2(AddressBits - subnet.prefix))

\* len(list(network.hosts())): every address of a /31 and a /32, otherwise
\* all but the network and the broadcast address
NumHosts(subnet) ==
    CASE subnet.prefix = AddressBits -> 1
      [] subnet.prefix = AddressBits - 1 -> 2
      [] OTHER -> Pow2(AddressBits - subnet.prefix) - 2

\* list(network.hosts())[i], i from 0
\* hosts() counted from the network address for every prefix
HostAt_from_network(subnet, i) == NetworkAddress(subnet) + i

HostAt(subnet, i) ==
    IF subnet.prefix >= AddressBits - 1
    THEN NetworkAddress(subnet) + i
    ELSE NetworkAddress(subnet) + 1 + i

NodeAllocation(role, ordinal, cluster_fqdn, console, allocated, subnet) ==
    [ error |-> Absent,
      node_type |-> role,
      hostname |-> [role |-> role, ordinal |-> ordinal],
      fqdn |-> [role |-> role, ordinal |-> ordinal, domain |-> cluster_fqdn],
      console_ip |-> console,
      allocated_ip |-> allocated,
      subnet |-> subnet ]

\* the entry {"error": "IP allocation failed: ..."}
AllocationFailure(why, subnet) ==
    [ error |-> why,
      node_type |-> Absent,
      hostname |-> [role |-> Absent, ordinal |-> 0],
      fqdn |-> [role |-> Absent, ordinal |-> 0, domain |-> Absent],
      console_ip |-> 0,
      allocated_ip |-> 0,
      subnet |-> subnet ]

IsErrorEntry(allocation) == allocation.error # Absent

\* the two loops of lines 290-315, for a network with enough hosts
AllocateFrom(node_ips, subnet, fqdn) ==
    LET n == Len(node_ips)
        masters == [i \in 1..Min(3, n) |->
                      NodeAllocation("master", i - 1, fqdn, node_ips[i],
                                     HostAt(subnet, i - 1), subnet)]
        workers == [j \in 1..(IF n > 3 THEN n - 3 ELSE 0) |->
                      NodeAllocation("worker", j - 1, fqdn, node_ips[j + 3],
                                     HostAt(subnet, j + 2), subnet)]
    IN  masters \o workers

\* the allocator stopping at the last host instead of failing
allocate_ips_truncating(node_ips, subnet, fqdn) ==
    IF ~ValidCidr(subnet)
    THEN << AllocationFailure("IP allocation failed: ValueError", subnet) >>
    ELSE AllocateFrom(SubSeq(node_ips, 1, Min(Len(node_ips), NumHosts(subnet))),
                      subnet, fqdn)

\* available_ips[i] raises IndexError in the first loop pass without a host,
\* and the except clause discards the allocations made before it
allocate_ips(node_ips, subnet, fqdn) ==
    IF ~ValidCidr(subnet)
    THEN << AllocationFailure("IP allocation failed: ValueError", subnet) >>
    ELSE IF Len(node_ips) > NumHosts(subnet)
    THEN << AllocationFailure("IP allocation failed: list index out of range", subnet) >>
    ELSE AllocateFrom(node_ips, subnet, fqdn)

\* ------------------------------------------------------- stage: allocation
\* the stage without the test of lines 412-414
ip_allocation_agent_no_node_check(s) ==
    IF SheetsDataFalsy(s.sheets_data) \/ s.subnet.kind = "none"
    THEN [s EXCEPT !.error = "Missing sheet data or subnet information"]
    ELSE [s EXCEPT
            !.ip_allocations =
                allocate_ips(s.sheets_data.node_ips, s.subnet, s.fqdn),
            !.current_step = "ips_allocated"]

\* the stage testing only the sheet data at line 407
ip_allocation_agent_no_subnet_check(s) ==
    IF SheetsDataFalsy(s.sheets_data)
    THEN [s EXCEPT !.error = "Missing sheet data or subnet information"]
    ELSE IF s.sheets_data.node_ips = << >>
    THEN [s EXCEPT !.error = "No node IPs found in sheet data"]
    ELSE [s EXCEPT
            !.ip_allocations =
                allocate_ips(s.sheets_data.node_ips, s.subnet, s.fqdn),
            !.current_step = "ips_allocated"]

ip_allocation_agent(s) ==
    IF SheetsDataFalsy(s.sheets_data) \/ s.subnet.kind = "none"
    THEN [s EXCEPT !.error = "Missing sheet data or subnet information"]
    ELSE IF s.sheets_data.node_ips = << >>
    THEN [s EXCEPT !.error = "No node IPs found in sheet data"]
    ELSE [s EXCEPT
            !.ip_allocations =
                allocate_ips(s.sheets_data.node_ips, s.subnet, s.fqdn),
            !.current_step = "ips_allocated"]

\* ------------------------------------------------------------ DNS (DNSAgent)
\* create_dns_record with its two arguments exchanged
create_dns_record_swapped(fqdn, ip_address) ==
    [ status |-> "success", fqdn |-> ip_address, ip_address |-> fqdn,
      record_type |-> "A" ]

create_dns_record(fqdn, ip_address) ==
    [ status |-> "success", fqdn |-> fqdn, ip_address |-> ip_address,
      record_type |-> "A" ]

RECURSIVE create_cluster_records(_)
create_cluster_records(allocations) ==
    IF allocations = << >> THEN << >>
    ELSE LET allocation == Head(allocations)
             rest == create_cluster_records(Tail(allocations))
         IN  IF IsErrorEntry(allocation) THEN rest
             ELSE << [ allocation |-> allocation,
                       dns_status |->
                          create_dns_record(allocation.fqdn,
                                            allocation.allocated_ip).status ] >>
                  \o rest

\* the create_dns_record calls the stage issues when none of them raises
RECURSIVE NodeEntries(_)
NodeEntries(allocations) ==
    IF allocations = << >> THEN 0
    ELSE (IF IsErrorEntry(Head(allocations)) THEN 0 ELSE 1)
         + NodeEntries(Tail(allocations))

CreateRecordCalls(s) ==
    IF s.intent = "CREATE_DNS_RECORD"
    THEN IF Falsy(s.fqdn) \/ Falsy(s.ip_address) THEN 0 ELSE 1
    ELSE NodeEntries(s.ip_allocations)

\* ------------------------------------------------------- stage: DNS
\* raises_at is the number of the create_dns_record call that raises, 0 when
\* none does.  Neither create_cluster_records nor the branches of the stage
\* catch it: the except clause of lines 447-449 does.
\* the stage without the test of lines 431-433
dns_creation_agent_no_check(s, raises_at) ==
    IF raises_at \in 1..CreateRecordCalls(s)
    THEN [s EXCEPT !.error = "DNS creation failed: exception"]
    ELSE
    IF s.intent = "CREATE_DNS_RECORD"
    THEN [s EXCEPT
            !.dns_records = << create_dns_record(s.fqdn, s.ip_address) >>,
            !.response_message =
                [kind |-> "DNS record created successfully!",
                 error |-> NoneStr, nodes |-> 0, records |-> 1],
            !.current_step = "dns_created"]
    ELSE IF s.ip_allocations # << >>
    THEN LET records == create_cluster_records(s.ip_allocations)
         IN  [s EXCEPT
                 !.dns_records = records,
                 !.response_message =
                     [kind |-> "Created n DNS records for OpenShift cluster",
                      error |-> NoneStr, nodes |-> 0, records |-> Len(records)],
                 !.current_step = "dns_created"]
    ELSE [s EXCEPT !.current_step = "dns_created"]

\* the stage without the response_message assignments of lines 437 and 443
dns_creation_agent_no_message(s, raises_at) ==
    IF raises_at \in 1..CreateRecordCalls(s)
    THEN [s EXCEPT !.error = "DNS creation failed: exception"]
    ELSE
    IF s.intent = "CREATE_DNS_RECORD"
    THEN IF Falsy(s.fqdn) \/ Falsy(s.ip_address)
         THEN [s EXCEPT !.error = "Missing FQDN or IP address for DNS record"]
         ELSE [s EXCEPT
                 !.dns_records = << create_dns_record(s.fqdn, s.ip_address) >>,
                 !.current_step = "dns_created"]
    ELSE IF s.ip_allocations # << >>
    THEN [s EXCEPT
             !.dns_records = create_cluster_records(s.ip_allocations),
             !.current_step = "dns_created"]
    ELSE [s EXCEPT !.current_step = "dns_created"]

dns_creation_agent(s, raises_at) ==
    IF raises_at \in 1..CreateRecordCalls(s)
    THEN [s EXCEPT !.error = "DNS creation failed: exception"]
    ELSE
    IF s.intent = "CREATE_DNS_RECORD"
    THEN IF Falsy(s.fqdn) \/ Falsy(s.ip_address)
         THEN [s EXCEPT !.error = "Missing FQDN or IP address for DNS record"]
         ELSE [s EXCEPT
                 !.dns_records = << create_dns_record(s.fqdn, s.ip_address) >>,
                 !.response_message =
                     [kind |-> "DNS record created successfully!",
                      error |-> NoneStr, nodes |-> 0, records |-> 1],
                 !.current_step = "dns_created"]
    ELSE IF s.ip_allocations # << >>
    THEN LET records == create_cluster_records(s.ip_allocations)
         IN  [s EXCEPT
                 !.dns_records = records,
                 !.response_message =
                     [kind |-> "Created n DNS records for OpenShift cluster",
                      error |-> NoneStr, nodes |-> 0, records |-> Len(records)],
                 !.current_step = "dns_created"]
    ELSE [s EXCEPT !.current_step = "dns_created"]

\* ------------------------------------------------------- stage: formatter
Upper(role) == IF role = "master" THEN "MASTER" ELSE "WORKER"

\* f"❌ Error: {state.error}"
ErrorMessage(error) ==
    [kind |-> "Error: ", error |-> error, nodes |-> 0, records |-> 0]

HelpMessage ==
    [kind |-> "Hello! I'm your OpenShift Cluster Management Assistant.",
     error |-> NoneStr, nodes |-> 0, records |-> 0]

RECURSIVE TableRows(_, _)
\* the table loop without the test `"error" not in allocation`
TableRows_with_errors(allocations, status) ==
    [ k \in DOMAIN allocations |->
        [ node_type |-> Upper(allocations[k].node_type),
          hostname |-> allocations[k].hostname,
          fqdn |-> allocations[k].fqdn,
          console_ip |-> allocations[k].console_ip,
          allocated_ip |-> allocations[k].allocated_ip,
          status |-> status ] ]

TableRows(allocations, status) ==
    IF allocations = << >> THEN << >>
    ELSE LET allocation == Head(allocations)
             rest == TableRows(Tail(allocations), status)
         IN  IF IsErrorEntry(allocation) THEN rest
             ELSE << [ node_type |-> Upper(allocation.node_type),
                       hostname |-> allocation.hostname,
                       fqdn |-> allocation.fqdn,
                       console_ip |-> allocation.console_ip,
                       allocated_ip |-> allocation.allocated_ip,
                       status |-> status ] >> \o rest

\* the branches with the help message for GENERAL_CHAT only, in place of
\* the final else
FormatByIntent_chat_only(s) ==
    CASE s.intent = "CREATE_CLUSTER" ->
            [s EXCEPT
                !.response_message =
                    [kind |-> "OpenShift cluster setup completed!",
                     error |-> NoneStr,
                     nodes |-> Len(s.ip_allocations),
                     records |-> Len(s.dns_records)],
                !.has_response_table = TRUE,
                !.response_table = TableRows(s.ip_allocations, "Created"),
                !.current_step = "response_formatted"]
      [] s.intent = "PARSE_SHEETS" ->
            [s EXCEPT
                !.response_message =
                    [kind |-> "Google Sheets Analysis:",
                     error |-> NoneStr,
                     nodes |-> IF SheetsDataFalsy(s.sheets_data) THEN 0
                               ELSE Len(s.sheets_data.node_ips),
                     records |-> 0],
                !.current_step = "response_formatted"]
      [] s.intent = "ALLOCATE_IPS" ->
            [s EXCEPT
                !.response_message =
                    [kind |-> "IP Allocation completed!",
                     error |-> NoneStr,
                     nodes |-> Len(s.ip_allocations),
                     records |-> 0],
                !.has_response_table = TRUE,
                !.response_table = TableRows(s.ip_allocations, Absent),
                !.current_step = "response_formatted"]
      [] s.intent = "CREATE_DNS_RECORD" ->
            [s EXCEPT !.current_step = "response_formatted"]
      [] s.intent = "GENERAL_CHAT" ->
            [s EXCEPT
                !.response_message = HelpMessage,
                !.current_step = "response_formatted"]
      [] OTHER ->
            [s EXCEPT !.current_step = "response_formatted"]

\* lines 458-533: the branches on state.intent
FormatByIntent(s) ==
    CASE s.intent = "CREATE_CLUSTER" ->
            [s EXCEPT
                !.response_message =
                    [kind |-> "OpenShift cluster setup completed!",
                     error |-> NoneStr,
                     nodes |-> Len(s.ip_allocations),
                     records |-> Len(s.dns_records)],
                !.has_response_table = TRUE,
                !.response_table = TableRows(s.ip_allocations, "Created"),
                !.current_step = "response_formatted"]
      [] s.intent = "PARSE_SHEETS" ->
            [s EXCEPT
                !.response_message =
                    [kind |-> "Google Sheets Analysis:",
                     error |-> NoneStr,
                     nodes |-> IF SheetsDataFalsy(s.sheets_data) THEN 0
                               ELSE Len(s.sheets_data.node_ips),
                     records |-> 0],
                !.current_step = "response_formatted"]
      [] s.intent = "ALLOCATE_IPS" ->
            [s EXCEPT
                !.response_message =
                    [kind |-> "IP Allocation completed!",
                     error |-> NoneStr,
                     nodes |-> Len(s.ip_allocations),
                     records |-> 0],
                !.has_response_table = TRUE,
                !.response_table = TableRows(s.ip_allocations, Absent),
                !.current_step = "response_formatted"]
      [] s.intent = "CREATE_DNS_RECORD" ->
            [s EXCEPT !.current_step = "response_formatted"]
      [] OTHER ->
            [s EXCEPT
                !.response_message = HelpMessage,
                !.current_step = "response_formatted"]

\* the formatter without the test of state.error
response_formatter_agent_ignoring_error(s) == FormatByIntent(s)

response_formatter_agent(s) ==
    IF ~Falsy(s.error)
    THEN [s EXCEPT !.response_message = ErrorMessage(s.error)]
    ELSE FormatByIntent(s)

\* ---------------------------------------------------- graph (create_workflow)
END == "__end__"

\* route_after_intent without the PARSE_SHEETS branch
route_after_intent_no_parse(s) ==
    CASE s.intent = "CREATE_CLUSTER" -> "sheets_parsing"
      [] s.intent = "ALLOCATE_IPS" -> "sheets_parsing"
      [] s.intent = "CREATE_DNS_RECORD" -> "dns_creation"
      [] OTHER -> "response_formatter"

\* route_after_intent sending every recognised intent through the sheet
route_after_intent_all_sheets(s) ==
    CASE s.intent = "CREATE_CLUSTER" -> "sheets_parsing"
      [] s.intent = "PARSE_SHEETS" -> "sheets_parsing"
      [] s.intent = "ALLOCATE_IPS" -> "sheets_parsing"
      [] s.intent = "CREATE_DNS_RECORD" -> "sheets_parsing"
      [] OTHER -> "response_formatter"

route_after_intent(s) ==
    CASE s.intent = "CREATE_CLUSTER" -> "sheets_parsing"
      [] s.intent = "PARSE_SHEETS" -> "sheets_parsing"
      [] s.intent = "ALLOCATE_IPS" -> "sheets_parsing"
      [] s.intent = "CREATE_DNS_RECORD" -> "dns_creation"
      [] OTHER -> "response_formatter"

\* route_after_sheets skipping the allocation once an error is set
route_after_sheets_on_error(s) ==
    CASE ~Falsy(s.error) -> "response_formatter"
      [] s.intent = "CREATE_CLUSTER" -> "ip_allocation"
      [] s.intent = "ALLOCATE_IPS" -> "ip_allocation"
      [] OTHER -> "response_formatter"

route_after_sheets(s) ==
    CASE s.intent = "CREATE_CLUSTER" -> "ip_allocation"
      [] s.intent = "ALLOCATE_IPS" -> "ip_allocation"
      [] OTHER -> "response_formatter"

\* route_after_ip_allocation skipping the DNS stage once an error is set
route_after_ip_allocation_on_error(s) ==
    IF s.intent = "CREATE_CLUSTER" /\ Falsy(s.error) THEN "dns_creation"
    ELSE "response_formatter"

\* route_after_ip_allocation sending an allocation that has set an error
\* back to the sheet
route_after_ip_allocation_reparse(s) ==
    IF s.intent = "CREATE_CLUSTER" THEN "dns_creation"
    ELSE IF ~Falsy(s.error) THEN "sheets_parsing"
    ELSE "response_formatter"

route_after_ip_allocation(s) ==
    IF s.intent = "CREATE_CLUSTER" THEN "dns_creation"
    ELSE "response_formatter"

\* the graph without the edge from dns_creation to response_formatter
route_after_dns_no_edge(s) == END

\* workflow.add_edge("dns_creation", "response_formatter")
route_after_dns(s) == "response_formatter"

\* workflow.add_edge("response_formatter", END)
route_after_formatter(s) == END

\* workflow.set_entry_point("intent_recognition")
EntryPoint == "intent_recognition"

\* -------------------------------------------------- response (chat_endpoint)
NoResponse == [sent |-> FALSE, message |-> NoMessage, has_table |-> FALSE, table_data |-> << >>]

Placeholder ==
    [kind |-> "Response generated successfully", error |-> NoneStr,
     nodes |-> 0, records |-> 0]

ChatResponse(final_state) ==
    [ sent |-> TRUE,
      message |-> IF final_state.response_message # NoMessage
                  THEN final_state.response_message ELSE Placeholder,
      has_table |-> final_state.has_response_table
                    /\ final_state.response_table # << >>,
      table_data |-> IF final_state.has_response_table
                     THEN final_state.response_table ELSE << >> ]

OperationIntents == {"CREATE_CLUSTER", "CREATE_DNS_RECORD", "ALLOCATE_IPS"}

\* the documents inserted into db.operations for the request
OperationRecords(final_state) ==
    IF final_state.intent \in OperationIntents
    THEN << [ intent |-> final_state.intent,
              result |-> final_state,
              status |-> IF Falsy(final_state.error)
                         THEN "success" ELSE "failed" ] >>
    ELSE << >>

\* ------------------------------------------------- which work has failed
\* The conditions under which the code itself reports that the work of a
\* stage did not succeed: an error branch of the stage, a fetch that did not
\* deliver the sheet, or the allocator's {"error": ...} entry.
SheetsWorkFails(s, first, second, reply) ==
    \/ Falsy(s.sheets_url)
    \/ fetch_sheet_data(s.sheets_url, first, second) # SheetCsv
    \/ parse_sheet_data(reply).error # Absent

AllocationWorkFails(s) ==
    \/ SheetsDataFalsy(s.sheets_data)
    \/ s.subnet.kind = "none"
    \/ s.sheets_data.node_ips = << >>
    \/ \E i \in DOMAIN ip_allocation_agent(s).ip_allocations :
          IsErrorEntry(ip_allocation_agent(s).ip_allocations[i])

DnsWorkFails(s, raises_at) ==
    \/ s.intent = "CREATE_DNS_RECORD" /\ (Falsy(s.fqdn) \/ Falsy(s.ip_address))
    \/ raises_at \in 1..CreateRecordCalls(s)

\* ------------------------------------------------------ collaborator calls
\* One entry per call a stage makes to a collaborator, in the order of the
\* calls: the callee, how the call ended, and what it was given.
Call(callee, outcome, arg) == [call |-> callee, outcome |-> outcome, arg |-> arg]

IntentCalls(reply) == << Call("generate_content_async", reply.kind, "intent") >>

\* the session.get calls of fetch_sheet_data: csv_url, then public_url
FetchRequests(sheets_url, first, second) ==
    IF FetchAttempts(sheets_url, first) = 2
    THEN << Call("GET", first, "csv_url"), Call("GET", second, "public_url") >>
    ELSE << Call("GET", first, "csv_url") >>

SheetsCalls(s, first, second, reply) ==
    IF Falsy(s.sheets_url) THEN << >>
    ELSE FetchRequests(s.sheets_url, first, second)
         \o (IF fetch_sheet_data(s.sheets_url, first, second).kind = "error"
             THEN << >>
             ELSE << Call("parse_sheet_data", reply.kind,
                          fetch_sheet_data(s.sheets_url, first, second).origin) >>)

\* ip_allocation_agent reaches line 417
AllocatorInvoked(s) ==
    /\ ~SheetsDataFalsy(s.sheets_data)
    /\ s.subnet.kind # "none"
    /\ s.sheets_data.node_ips # << >>

AllocationCalls(s) ==
    IF AllocatorInvoked(s)
    THEN << Call("allocate_ips",
                 IF IsErrorEntry(allocate_ips(s.sheets_data.node_ips,
                                              s.subnet, s.fqdn)[1])
                 THEN "error" ELSE "allocations",
                 "node_ips") >>
    ELSE << >>

\* the calls up to and including the one that raises
DnsCalls(s, raises_at) ==
    [k \in 1..(IF raises_at \in 1..CreateRecordCalls(s)
               THEN raises_at ELSE CreateRecordCalls(s)) |->
        Call("create_dns_record",
             IF k = raises_at THEN "raise" ELSE "success", "fqdn, ip")]

\* ------------------------------------------------------------ state machine
VARIABLES
    state,        \* the AgentState of the request
    pc,           \* the graph node to run next, or END
    clock,        \* datetime.utcnow()
    response,     \* the ChatResponse chat_endpoint returns
    operations,   \* the documents of the request in db.operations
    executed,     \* history: the nodes run so far, in order
    errors,       \* history: state.error at the return of each node run
    work_failed,  \* history: the nodes whose work has failed
    calls,        \* history: the collaborator calls made so far, in order
    runs          \* the requests that chat_endpoint serves concurrently

vars == << state, pc, clock, response, operations, executed, errors, work_failed, calls, runs >>

Init ==
    /\ state = AgentState
    /\ pc = EntryPoint
    /\ clock = 0
    /\ response = NoResponse
    /\ operations = << >>
    /\ executed = << >>
    /\ errors = << >>
    /\ work_failed = {}
    /\ calls = << >>
    /\ runs = << >>

\* a node has returned new_state: the graph picks the next node
Ran(node, new_state, next, failed, made) ==
    /\ state' = new_state
    /\ pc' = next
    /\ executed' = Append(executed, node)
    /\ errors' = Append(errors, new_state.error)
    /\ work_failed' = IF failed THEN work_failed \cup {node} ELSE work_failed
    /\ calls' = calls \o made
    /\ UNCHANGED << response, operations, runs >>

IntentRecognitionBegin ==
    /\ pc = "intent_recognition"
    /\ state' = intent_recognition_agent_begin(state, clock)
    /\ clock' = clock + 1
    /\ pc' = "intent_recognition_await"
    /\ UNCHANGED << response, operations, executed, errors, work_failed, calls, runs >>

IntentRecognitionResume ==
    /\ pc = "intent_recognition_await"
    /\ \E reply \in ClassifierReplies :
          LET new_state == intent_recognition_agent_resume(state, reply, clock)
          IN  Ran("intent_recognition", new_state,
                  route_after_intent(new_state), FALSE, IntentCalls(reply))
    /\ clock' = clock + 1

SheetsParsing ==
    /\ pc = "sheets_parsing"
    /\ \E first \in HttpOutcomes, second \in HttpOutcomes, reply \in ParseReplies :
          LET new_state == sheets_parsing_agent(state, first, second, reply)
          IN  Ran("sheets_parsing", new_state, route_after_sheets(new_state),
                  SheetsWorkFails(state, first, second, reply),
                  SheetsCalls(state, first, second, reply))
    /\ UNCHANGED clock

IpAllocation ==
    /\ pc = "ip_allocation"
    /\ LET new_state == ip_allocation_agent(state)
       IN  Ran("ip_allocation", new_state,
               route_after_ip_allocation(new_state), AllocationWorkFails(state),
               AllocationCalls(state))
    /\ UNCHANGED clock

DnsCreation ==
    /\ pc = "dns_creation"
    /\ LET new_state == dns_creation_agent(state, 0)
       IN  Ran("dns_creation", new_state, route_after_dns(new_state),
               DnsWorkFails(state, 0), DnsCalls(state, 0))
    /\ UNCHANGED clock

\* DNSAgent is a stand-in ("Mock for now", line 319) whose calls all succeed.
\* This step is dns_creation with a registrar that can fail: one of the
\* create_dns_record calls raises.
DnsCreationRaises ==
    /\ pc = "dns_creation"
    /\ \E raises_at \in 1..CreateRecordCalls(state) :
          LET new_state == dns_creation_agent(state, raises_at)
          IN  Ran("dns_creation", new_state, route_after_dns(new_state),
                  DnsWorkFails(state, raises_at), DnsCalls(state, raises_at))
    /\ UNCHANGED clock

ResponseFormatter ==
    /\ pc = "response_formatter"
    /\ LET new_state == response_formatter_agent(state)
       IN  Ran("response_formatter", new_state,
               route_after_formatter(new_state), FALSE, << >>)
    /\ UNCHANGED clock

\* chat_endpoint after workflow.ainvoke has returned
chat_endpoint ==
    /\ pc = END
    /\ ~response.sent
    /\ response' = ChatResponse(state)
    /\ operations' = operations \o OperationRecords(state)
    /\ UNCHANGED << state, pc, clock, executed, errors, work_failed, calls, runs >>

Next ==
    \/ IntentRecognitionBegin
    \/ IntentRecognitionResume
    \/ SheetsParsing
    \/ IpAllocation
    \/ DnsCreation
    \/ ResponseFormatter
    \/ chat_endpoint

Spec == Init /\ [][Next]_vars

\* Every collaborator call returns or raises, and the event loop then
\* resumes the coroutine that awaits it.
FairSpec == Spec /\ WF_vars(Next)

\* the workflow with a DNS registrar whose create-record calls can fail
FaultNext == Next \/ DnsCreationRaises

FaultSpec == Init /\ [][FaultNext]_vars

\* ------------------------------------------------------ concurrent requests
\* chat_endpoint is a coroutine: the event loop runs one request until it
\* waits for a collaborator and may then resume any other request.  Each
\* request has its own AgentState and its own compiled graph (lines
\* 628-638).  What the requests share is the module: the four agents of
\* lines 344-348, whose only field is the model handle assigned in __init__
\* and assigned by no method, the clock, and the database, to which
\* chat_endpoint only adds documents.
Requests == 1..MaxRequests

\* the sheet the parser reports to the concurrent requests
ConcurrentSheet ==
    [ kind |-> "json", fqdn |-> "cluster.example.com",
      subnet |-> Cidr(BaseAddress, 29), has_node_ips |-> TRUE,
      node_ips |-> NodeIps(4) ]

\* what the collaborators answer to one request: the classifier's reply,
\* the two GETs, and the parser's reply.  The requests are a cluster whose
\* sheet is read, a cluster whose sheet cannot be fetched, and a DNS record.
RunInputs ==
    { i \in [ reply : { c \in ClassifierJson :
                          /\ c.intent \in {"CREATE_CLUSTER", "CREATE_DNS_RECORD"}
                          /\ c.google_sheets_url = DocsUrl
                          /\ c.fqdn = "test.example.com"
                          /\ c.ip_address = "1.2.3.4"
                          /\ c.subnet = NoSubnet
                          /\ c.confidence = "0.95" },
              first : {"csv", "http_error"},
              second : {"csv"},
              parse : {ConcurrentSheet} ] :
        i.first = "csv" \/ i.reply.intent = "CREATE_CLUSTER" }

\* a request that chat_endpoint has received and not yet begun to serve
NewRun(input) ==
    [ input |-> input, state |-> AgentState, pc |-> "accept", steps |-> 0,
      response |-> NoResponse ]

\* every instance starting from the lists of the instance created before
\* it, as with class-level defaults that are not copied
InitialState_shared_defaults(rs, r) ==
    IF \E q \in DOMAIN rs : q # r /\ rs[q].pc # "accept"
    THEN LET q == CHOOSE q \in DOMAIN rs : q # r /\ rs[q].pc # "accept"
         IN  [AgentState EXCEPT
                !.workflow_progress = rs[q].state.workflow_progress,
                !.ip_allocations = rs[q].state.ip_allocations,
                !.dns_records = rs[q].state.dns_records]
    ELSE AgentState

\* AgentState(user_input=..., messages=[...]): pydantic copies the defaults
\* of the class into every instance
InitialState(rs, r) == AgentState

\* the run after the graph node at run.pc, or chat_endpoint at END, has run
RunStage(run, now) ==
    LET s == run.state
        given == run.input
        after(new_state, next) ==
            [run EXCEPT !.state = new_state, !.pc = next, !.steps = @ + 1]
    IN  CASE run.pc = "intent_recognition" ->
                after(intent_recognition_agent_begin(s, now),
                      "intent_recognition_await")
          [] run.pc = "intent_recognition_await" ->
                LET new_state == intent_recognition_agent_resume(s, given.reply, now)
                IN  after(new_state, route_after_intent(new_state))
          [] run.pc = "sheets_parsing" ->
                LET new_state == sheets_parsing_agent(s, given.first, given.second, given.parse)
                IN  after(new_state, route_after_sheets(new_state))
          [] run.pc = "ip_allocation" ->
                LET new_state == ip_allocation_agent(s)
                IN  after(new_state, route_after_ip_allocation(new_state))
          [] run.pc = "dns_creation" ->
                LET new_state == dns_creation_agent(s, 0)
                IN  after(new_state, route_after_dns(new_state))
          [] run.pc = "response_formatter" ->
                LET new_state == response_formatter_agent(s)
                IN  after(new_state, route_after_formatter(new_state))
          [] run.pc = END ->
                [run EXCEPT !.response = ChatResponse(s), !.pc = "responded",
                            !.steps = @ + 1]

ConcurrentInit ==
    /\ state = AgentState
    /\ pc = EntryPoint
    /\ clock = 0
    /\ response = NoResponse
    /\ operations = << >>
    /\ executed = << >>
    /\ errors = << >>
    /\ work_failed = {}
    /\ calls = << >>
    /\ runs \in [Requests -> { NewRun(input) : input \in RunInputs }]

\* lines 628-638: the request gets its AgentState and enters the graph
ConcurrentAccept ==
    /\ \E r \in DOMAIN runs :
          /\ runs[r].pc = "accept"
          /\ runs' = [runs EXCEPT ![r].state = InitialState(runs, r),
                                  ![r].pc = EntryPoint]
    /\ UNCHANGED << state, pc, clock, response, operations, executed, errors,
                    work_failed, calls >>

\* one request runs the node it is at; the others stay where they wait
ConcurrentStage(node) ==
    /\ \E r \in DOMAIN runs :
          /\ runs[r].pc = node
          /\ runs' = [runs EXCEPT ![r] = RunStage(runs[r], clock)]
    /\ clock' = IF node \in {"intent_recognition", "intent_recognition_await"}
                THEN clock + 1 ELSE clock
    /\ UNCHANGED << state, pc, response, operations, executed, errors,
                    work_failed, calls >>

ConcurrentIntentBegin == ConcurrentStage("intent_recognition")
ConcurrentIntentResume == ConcurrentStage("intent_recognition_await")
ConcurrentSheetsParsing == ConcurrentStage("sheets_parsing")
ConcurrentIpAllocation == ConcurrentStage("ip_allocation")
ConcurrentDnsCreation == ConcurrentStage("dns_creation")
ConcurrentResponseFormatter == ConcurrentStage("response_formatter")

\* lines 641-672: the response of one request and its operation record
ConcurrentRespond ==
    /\ \E r \in DOMAIN runs :
          /\ runs[r].pc = END
          /\ runs' = [runs EXCEPT ![r] = RunStage(runs[r], clock)]
          /\ operations' = operations \o OperationRecords(runs[r].state)
    /\ UNCHANGED << state, pc, clock, response, executed, errors,
                    work_failed, calls >>

ConcurrentNext ==
    \/ ConcurrentAccept
    \/ ConcurrentIntentBegin
    \/ ConcurrentIntentResume
    \/ ConcurrentSheetsParsing
    \/ ConcurrentIpAllocation
    \/ ConcurrentDnsCreation
    \/ ConcurrentResponseFormatter
    \/ ConcurrentRespond

ConcurrentSpec == ConcurrentInit /\ [][ConcurrentNext]_vars

\* ================================================================ properties
Last(seq) == seq[Len(seq)]

IsPrefix(a, b) == Len(a) <= Len(b) /\ \A i \in 1..Len(a) : a[i] = b[i]

\* the index of the run of `node` in the history, 0 when it has not run
RunOf(node) ==
    IF \E i \in DOMAIN executed : executed[i] = node
    THEN CHOOSE i \in DOMAIN executed : executed[i] = node
    ELSE 0

\* the node that must follow `node` in the history, or be the next to run
FollowedBy(node, next) ==
    RunOf(node) # 0 =>
        IF RunOf(node) < Len(executed)
        THEN executed[RunOf(node) + 1] = next
        ELSE pc = next

\* C1: every run, whatever the intent and whatever the collaborators answer,
\* eventually runs response_formatter as its last stage and is then at END.
C1_ReachesFormatterAndEnd ==
    <>(pc = END /\ executed # << >> /\ Last(executed) = "response_formatter")

\* a run in which the work of a stage failed has run the formatter and ended
C1_Witness ==
    /\ pc = END
    /\ Last(executed) = "response_formatter"
    /\ work_failed # {}

\* C2: the stage after intent_recognition is sheets_parsing for
\* CREATE_CLUSTER, PARSE_SHEETS and ALLOCATE_IPS, dns_creation for
\* CREATE_DNS_RECORD and response_formatter for any other intent.
C2_RouteAfterIntent ==
    FollowedBy("intent_recognition",
        IF state.intent \in {"CREATE_CLUSTER", "PARSE_SHEETS", "ALLOCATE_IPS"}
        THEN "sheets_parsing"
        ELSE IF state.intent = "CREATE_DNS_RECORD" THEN "dns_creation"
        ELSE "response_formatter")

C2_Witness ==
    /\ Len(executed) >= 2
    /\ executed[1] = "intent_recognition"
    /\ executed[2] = "sheets_parsing"
    /\ state.intent = "PARSE_SHEETS"

\* C3: the stage after sheets_parsing is ip_allocation for CREATE_CLUSTER
\* and ALLOCATE_IPS and response_formatter otherwise, also when
\* sheets_parsing has set state.error.
C3_RouteAfterSheets ==
    FollowedBy("sheets_parsing",
        IF state.intent \in {"CREATE_CLUSTER", "ALLOCATE_IPS"}
        THEN "ip_allocation" ELSE "response_formatter")

\* sheets_parsing returned with an error and ip_allocation ran after it
C3_Witness ==
    /\ RunOf("sheets_parsing") # 0
    /\ RunOf("sheets_parsing") < Len(executed)
    /\ ~Falsy(errors[RunOf("sheets_parsing")])
    /\ executed[RunOf("sheets_parsing") + 1] = "ip_allocation"

\* C4: the stage after ip_allocation is dns_creation for CREATE_CLUSTER and
\* response_formatter otherwise, also when ip_allocation has set state.error.
C4_RouteAfterIpAllocation ==
    FollowedBy("ip_allocation",
        IF state.intent = "CREATE_CLUSTER"
        THEN "dns_creation" ELSE "response_formatter")

\* ip_allocation returned with an error and dns_creation ran after it
C4_Witness ==
    /\ RunOf("ip_allocation") # 0
    /\ RunOf("ip_allocation") < Len(executed)
    /\ ~Falsy(errors[RunOf("ip_allocation")])
    /\ executed[RunOf("ip_allocation") + 1] = "dns_creation"

\* C5: a run with intent CREATE_DNS_RECORD executes exactly
\* intent_recognition, dns_creation, response_formatter, and a run with
\* intent GENERAL_CHAT exactly intent_recognition, response_formatter.
DnsRecordPath == << "intent_recognition", "dns_creation", "response_formatter" >>
GeneralChatPath == << "intent_recognition", "response_formatter" >>

C5_FixedPaths ==
    /\ state.intent = "CREATE_DNS_RECORD" =>
          /\ IsPrefix(executed, DnsRecordPath)
          /\ pc = END => executed = DnsRecordPath
    /\ state.intent = "GENERAL_CHAT" =>
          /\ IsPrefix(executed, GeneralChatPath)
          /\ pc = END => executed = GeneralChatPath

C5_Witness ==
    /\ pc = END
    /\ state.intent = "CREATE_DNS_RECORD"
    /\ executed = DnsRecordPath

\* C6: whenever the work of a stage fails, state.error is set when the stage
\* returns, and the response of the run is that error.
C6_FailureSetsError ==
    /\ work_failed # {} => ~Falsy(state.error)
    /\ (response.sent /\ work_failed # {}) =>
          response.message = ErrorMessage(state.error)

\* C7: if state.error is set when response_formatter runs, the response
\* message is the error and the response has no table.
C7_ErrorResponse ==
    /\ (executed # << >> /\ Last(executed) = "response_formatter"
        /\ ~Falsy(state.error)) =>
          /\ state.response_message = ErrorMessage(state.error)
          /\ ~state.has_response_table
    /\ (response.sent /\ ~Falsy(state.error)) =>
          /\ response.message = ErrorMessage(state.error)
          /\ ~response.has_table

\* an error response of a cluster run that had parsed its sheet
C7_Witness ==
    /\ response.sent
    /\ ~Falsy(state.error)
    /\ state.intent = "CREATE_CLUSTER"
    /\ state.sheets_data.present

\* C8: every run of a stage adds one "started" entry before its work and
\* one "completed" or "failed" entry after it: the trail is one such pair
\* per stage run, and a "started" entry for a stage that is suspended.
C8_StartedAndFinishedPerStage ==
    LET trail == state.workflow_progress
    IN  /\ Len(trail) = 2 * Len(executed)
                        + (IF pc = "intent_recognition_await" THEN 1 ELSE 0)
        /\ \A k \in 1..Len(executed) :
              /\ trail[2 * k - 1].status = "started"
              /\ trail[2 * k].status \in {"completed", "failed"}
              /\ trail[2 * k - 1].agent = trail[2 * k].agent

\* C9: at the end of a run the trail has as many "started" entries as
\* "completed" and "failed" entries together, and its stages are in the
\* order of the routing table for the intent.
CountStatus(trail, statuses) ==
    Cardinality({ i \in DOMAIN trail : trail[i].status \in statuses })

RoutingTablePath(intent) ==
    CASE intent = "CREATE_CLUSTER" ->
            << "intent_recognition", "sheets_parsing", "ip_allocation",
               "dns_creation", "response_formatter" >>
      [] intent = "ALLOCATE_IPS" ->
            << "intent_recognition", "sheets_parsing", "ip_allocation",
               "response_formatter" >>
      [] intent = "PARSE_SHEETS" ->
            << "intent_recognition", "sheets_parsing", "response_formatter" >>
      [] intent = "CREATE_DNS_RECORD" -> DnsRecordPath
      [] OTHER -> GeneralChatPath

\* the graph node of the stage that writes entries under the name `agent`
NodeOfAgent(agent) ==
    IF agent = IntentAgent THEN "intent_recognition" ELSE "no such node"

PositionIn(path, node) ==
    IF \E i \in DOMAIN path : path[i] = node
    THEN CHOOSE i \in DOMAIN path : path[i] = node
    ELSE 0

C9_TrailComplete ==
    pc = END =>
        LET trail == state.workflow_progress
            path == RoutingTablePath(state.intent)
        IN  /\ CountStatus(trail, {"started"})
                 = CountStatus(trail, {"completed", "failed"})
            /\ \A i \in DOMAIN trail :
                  PositionIn(path, NodeOfAgent(trail[i].agent)) # 0
            /\ \A i, j \in DOMAIN trail :
                  i < j => PositionIn(path, NodeOfAgent(trail[i].agent))
                             <= PositionIn(path, NodeOfAgent(trail[j].agent))

C9_Witness ==
    /\ pc = END
    /\ CountStatus(state.workflow_progress, {"started"}) = 1
    /\ CountStatus(state.workflow_progress, {"completed", "failed"}) = 1

\* C10: the trail only grows at its end: the trail before a step is a
\* prefix of the trail after it.
C10_TrailAppendOnly ==
    [][IsPrefix(state.workflow_progress, state'.workflow_progress)]_vars

\* an entry has been appended to a trail that already had one
C10_Witness ==
    /\ Len(state.workflow_progress) = 2
    /\ state.workflow_progress[1].status = "started"
    /\ state.workflow_progress[2].status = "completed"

\* ------------------------------------------------------ claims C11 to C20
IsClassifierCall(c) == c.call = "generate_content_async"
IsGet(c) == c.call = "GET"
IsParseCall(c) == c.call = "parse_sheet_data"
IsAllocatorCall(c) == c.call = "allocate_ips"
IsCreateRecordCall(c) == c.call = "create_dns_record"

ClassifierFailed ==
    /\ SelectSeq(calls, IsClassifierCall) # << >>
    /\ SelectSeq(calls, IsClassifierCall)[1].outcome \in {"raise", "no_json", "bad_json"}

\* C11: when the classifier raises, answers without a JSON object or with
\* unparsable JSON, the intent is GENERAL_CHAT with confidence 0.5, no error
\* is set, and the run goes from intent_recognition to response_formatter.
C11_ClassifierFallback ==
    ClassifierFailed =>
        /\ state.intent = "GENERAL_CHAT"
        /\ state.workflow_progress[2].status = "completed"
        /\ state.workflow_progress[2].details
              = [intent |-> "GENERAL_CHAT", confidence |-> "0.5"]
        /\ Falsy(state.error)
        /\ \A i \in DOMAIN errors : Falsy(errors[i])
        /\ IsPrefix(executed, GeneralChatPath)
        /\ pc = END => executed = GeneralChatPath

C11_Witness ==
    /\ pc = END
    /\ SelectSeq(calls, IsClassifierCall)[1].outcome = "bad_json"
    /\ executed = GeneralChatPath

\* C12: once intent_recognition has run, state.intent is one of the five
\* intents, and it is the value that stage gave it.
C12_IntentIsOneOfFive ==
    RunOf("intent_recognition") # 0 =>
        /\ state.intent \in Intents
        /\ state.intent = state.workflow_progress[2].details.intent

\* C13: when the first fetch and the retry both fail, sheets_parsing returns
\* with state.error set, and the parser is never given text that did not
\* come from the sheet.
C13_NoFabricatedSheet ==
    LET gets == SelectSeq(calls, IsGet)
        parses == SelectSeq(calls, IsParseCall)
    IN  /\ (Len(gets) = 2 /\ gets[1].outcome # "csv" /\ gets[2].outcome # "csv"
            /\ RunOf("sheets_parsing") # 0)
              => ~Falsy(errors[RunOf("sheets_parsing")])
        /\ \A i \in DOMAIN parses : parses[i].arg = "sheet"

\* C14 as claimed: a first attempt that does not deliver CSV is followed by
\* exactly one more attempt, and there are never more than two.
C14_RetryAfterAnyFailure ==
    LET gets == SelectSeq(calls, IsGet)
    IN  /\ Len(gets) <= 2
        /\ (gets # << >> /\ gets[1].outcome # "csv") => Len(gets) = 2

\* C14 as amended: a second attempt, against the alternate URL, is made
\* exactly when the first answers 200 with HTML for a docs.google.com
\* sheet; after any other first attempt without CSV the stage reports the
\* failure after that one attempt; there are never more than two attempts.
C14_RetryOnlyAfterHtml ==
    LET gets == SelectSeq(calls, IsGet)
    IN  /\ Len(gets) <= 2
        /\ gets # << >> =>
              /\ gets[1].arg = "csv_url"
              /\ Len(gets) = 2
                    <=> (gets[1].outcome = "html" /\ state.sheets_url = DocsUrl)
              /\ Len(gets) = 2 => gets[2].arg = "public_url"
              /\ (Len(gets) = 1 /\ gets[1].outcome # "csv") =>
                    /\ ~Falsy(errors[RunOf("sheets_parsing")])
                    /\ SelectSeq(calls, IsParseCall) = << >>

C14_Witness ==
    LET gets == SelectSeq(calls, IsGet)
    IN  Len(gets) = 2 /\ gets[1].outcome = "html" /\ gets[2].outcome = "csv"

\* the sheet was parsed and holds no node IP
ParsedWithoutNodeIps ==
    /\ RunOf("sheets_parsing") # 0
    /\ state.sheets_data.present
    /\ state.sheets_data.node_ips = << >>

\* C15 as claimed: when the parsed sheet has no node IPs, sheets_parsing
\* itself returns with an error, and the allocator is never called.
C15_SheetsStageFails ==
    ParsedWithoutNodeIps =>
        /\ ~Falsy(errors[RunOf("sheets_parsing")])
        /\ SelectSeq(calls, IsAllocatorCall) = << >>

\* C15 as amended: when the parsed sheet has no node IPs, sheets_parsing
\* returns without an error; on the CREATE_CLUSTER and ALLOCATE_IPS paths it
\* is ip_allocation that sets the error, "No node IPs found in sheet data"
\* when the sheet data is not empty and a subnet is known and the
\* missing-data error otherwise; the allocator is never called and no
\* allocation is made.
C15_AllocationStageFails ==
    ParsedWithoutNodeIps =>
        /\ Falsy(errors[RunOf("sheets_parsing")])
        /\ SelectSeq(calls, IsAllocatorCall) = << >>
        /\ state.ip_allocations = << >>
        /\ (state.intent \in {"CREATE_CLUSTER", "ALLOCATE_IPS"}
            /\ RunOf("sheets_parsing") < Len(executed)) =>
              /\ executed[RunOf("sheets_parsing") + 1] = "ip_allocation"
              /\ errors[RunOf("ip_allocation")]
                    = IF SheetsDataFalsy(state.sheets_data)
                         \/ state.subnet.kind = "none"
                      THEN "Missing sheet data or subnet information"
                      ELSE "No node IPs found in sheet data"

C15_Witness ==
    /\ ParsedWithoutNodeIps
    /\ state.intent = "ALLOCATE_IPS"
    /\ pc = END
    /\ state.error = "No node IPs found in sheet data"

\* the addresses of the subnet's network that a node can get: all of them in
\* a network of one or two addresses, otherwise all but the lowest and the
\* highest
UsableHostSet(subnet) ==
    LET size == Pow2(AddressBits - subnet.prefix)
        lowest == CHOOSE a \in (subnet.addr - size + 1)..subnet.addr : a % size = 0
        all == lowest..(lowest + size - 1)
    IN  IF size <= 2 THEN all ELSE all \ {lowest, lowest + size - 1}

\* the i-th address of a set in ascending order, i from 0
IthAddress(addresses, i) ==
    CHOOSE a \in addresses : Cardinality({b \in addresses : b < a}) = i

AllocatorCalled == SelectSeq(calls, IsAllocatorCall) # << >>

EnoughHosts ==
    /\ state.subnet.kind = "cidr"
    /\ state.subnet.prefix <= AddressBits
    /\ Cardinality(UsableHostSet(state.subnet)) >= Len(state.sheets_data.node_ips)

\* C16: for a valid CIDR with at least N usable hosts and N console IPs the
\* allocator returns N allocations in input order: entry i is master i for
\* i < 3 and worker i-3 otherwise, with the i-th console IP and the i-th
\* usable host address of the subnet.
C16_PositionalAllocation ==
    (AllocatorCalled /\ EnoughHosts) =>
        LET node_ips == state.sheets_data.node_ips
            allocations == state.ip_allocations
        IN  /\ Len(allocations) = Len(node_ips)
            /\ \A k \in DOMAIN allocations :
                  LET i == k - 1
                      a == allocations[k]
                      role == IF i < 3 THEN "master" ELSE "worker"
                      ordinal == IF i < 3 THEN i ELSE i - 3
                  IN  /\ a.error = Absent
                      /\ a.node_type = role
                      /\ a.hostname = [role |-> role, ordinal |-> ordinal]
                      /\ a.fqdn = [role |-> role, ordinal |-> ordinal,
                                   domain |-> state.fqdn]
                      /\ a.console_ip = node_ips[k]
                      /\ a.allocated_ip
                            = IthAddress(UsableHostSet(state.subnet), i)

\* five nodes allocated from a subnet given with host bits set
C16_Witness ==
    /\ AllocatorCalled
    /\ EnoughHosts
    /\ Len(state.ip_allocations) = 5
    /\ state.ip_allocations[5].node_type = "worker"

\* C17: for a subnet that is not a valid CIDR the allocator produces no node
\* allocation, and the run treats the allocation as failed: it shows no
\* table row and no completion message, creates no DNS record, and records
\* no successful operation.
C17_InvalidSubnetFails ==
    (AllocatorCalled /\ ~(state.subnet.kind = "cidr"
                          /\ state.subnet.prefix <= AddressBits)) =>
        /\ \A k \in DOMAIN state.ip_allocations :
              state.ip_allocations[k].error # Absent
        /\ state.dns_records = << >>
        /\ state.response_table = << >>
        /\ response.sent =>
              /\ ~response.has_table
              /\ response.message.kind
                    \notin {"IP Allocation completed!",
                            "OpenShift cluster setup completed!"}
              /\ \A k \in DOMAIN operations : operations[k].status = "failed"

\* C18: when the subnet has fewer usable hosts than console IPs the
\* allocator returns no node allocation at all, only its failure.
C18_NoTruncatedAllocation ==
    (AllocatorCalled /\ state.subnet.kind = "cidr"
     /\ state.subnet.prefix <= AddressBits /\ ~EnoughHosts) =>
        /\ Len(state.ip_allocations) = 1
        /\ \A k \in DOMAIN state.ip_allocations :
              state.ip_allocations[k].error # Absent

\* four console IPs and a /30
C18_Witness ==
    /\ AllocatorCalled
    /\ state.subnet = Cidr(BaseAddress + 5, 30)
    /\ Len(state.sheets_data.node_ips) = 4
    /\ state.ip_allocations # << >>

C20_SingleRecord ==
    (pc = END /\ state.intent = "CREATE_DNS_RECORD"
     /\ ~Falsy(state.fqdn) /\ ~Falsy(state.ip_address)) =>
        /\ state.dns_records
              = << [status |-> "success", fqdn |-> state.fqdn,
                    ip_address |-> state.ip_address, record_type |-> "A"] >>
        /\ state.fqdn = "test.example.com"
        /\ state.ip_address = "1.2.3.4"
        /\ Len(SelectSeq(calls, IsCreateRecordCall)) = 1
        /\ state.ip_allocations = << >>
        /\ \A i \in DOMAIN executed :
              executed[i] \notin {"sheets_parsing", "ip_allocation"}
        /\ \A i \in DOMAIN state.workflow_progress :
              NodeOfAgent(state.workflow_progress[i].agent) = "intent_recognition"

C20_Witness ==
    /\ response.sent
    /\ state.intent = "CREATE_DNS_RECORD"
    /\ Len(state.dns_records) = 1
    /\ state.dns_records[1].fqdn = "test.example.com"

\* ------------------------------------------------------ claims C21 to C30
IsNodeEntry(allocation) == allocation.error = Absent

FormatterHasRun == executed # << >> /\ Last(executed) = "response_formatter"

\* C21: when response_formatter has run for CREATE_CLUSTER or ALLOCATE_IPS
\* with no error set, the table has one row per allocation that is not an
\* error entry, in the order of the allocations, and the response carries
\* these rows; for every other intent there is no table.
C21_TableRowsPerAllocation ==
    /\ (FormatterHasRun /\ Falsy(state.error)
        /\ state.intent \in {"CREATE_CLUSTER", "ALLOCATE_IPS"}) =>
          LET nodes == SelectSeq(state.ip_allocations, IsNodeEntry)
              table == state.response_table
          IN  /\ state.has_response_table
              /\ Len(table) = Len(nodes)
              /\ \A k \in DOMAIN table :
                    /\ table[k].hostname = nodes[k].hostname
                    /\ table[k].fqdn = nodes[k].fqdn
                    /\ table[k].console_ip = nodes[k].console_ip
                    /\ table[k].allocated_ip = nodes[k].allocated_ip
                    /\ table[k].node_type
                          = (IF nodes[k].node_type = "master"
                             THEN "MASTER" ELSE "WORKER")
              /\ response.sent =>
                    /\ response.table_data = table
                    /\ response.has_table <=> nodes # << >>
    /\ state.intent \notin {"CREATE_CLUSTER", "ALLOCATE_IPS"} =>
          /\ ~state.has_response_table
          /\ state.response_table = << >>
          /\ ~response.has_table
          /\ response.table_data = << >>

\* a cluster of five nodes answered with a table of five rows
C21_Witness ==
    /\ response.sent
    /\ state.intent = "CREATE_CLUSTER"
    /\ Falsy(state.error)
    /\ Len(response.table_data) = 5
    /\ response.table_data[4].node_type = "WORKER"

RecognisedIntents ==
    {"CREATE_CLUSTER", "PARSE_SHEETS", "ALLOCATE_IPS", "CREATE_DNS_RECORD"}

HelpText == "Hello! I'm your OpenShift Cluster Management Assistant."

\* C22: when response_formatter has run with no error set and the intent is
\* absent or any value other than the four recognised ones, the message of
\* the state and of the response is the fixed help message; for the four
\* recognised intents the help message is never produced.
C22_HelpMessage ==
    /\ (FormatterHasRun /\ Falsy(state.error)
        /\ state.intent \notin RecognisedIntents) =>
          /\ state.response_message.kind = HelpText
          /\ response.sent => response.message.kind = HelpText
    /\ state.intent \in RecognisedIntents =>
          /\ state.response_message.kind # HelpText
          /\ response.message.kind # HelpText

\* the classifier answered with an intent that is null
C22_Witness ==
    /\ response.sent
    /\ state.intent = NoneStr
    /\ response.message.kind = HelpText

\* C23: a finished request has exactly one operation record when its intent
\* is CREATE_CLUSTER, CREATE_DNS_RECORD or ALLOCATE_IPS and none otherwise,
\* and the record is flagged "failed" exactly when the work of some stage
\* of the run failed.
C23_OperationRecord ==
    response.sent =>
        /\ Len(operations)
              = (IF state.intent \in {"CREATE_CLUSTER", "CREATE_DNS_RECORD",
                                      "ALLOCATE_IPS"} THEN 1 ELSE 0)
        /\ \A k \in DOMAIN operations :
              /\ operations[k].intent = state.intent
              /\ operations[k].result = state
              /\ operations[k].status
                    = (IF work_failed # {} THEN "failed" ELSE "success")

\* what a request with these collaborator answers produces when it is the
\* only request: its run after n steps
RECURSIVE SoloRun(_, _)
SoloRun(input, n) ==
    IF n = 0
    THEN [NewRun(input) EXCEPT !.pc = EntryPoint]
    ELSE LET before == SoloRun(input, n - 1)
         IN  RunStage(before, 0)

\* a run without the readings of the clock in its trail
Untimed(run) ==
    [run EXCEPT !.state.workflow_progress =
        [i \in DOMAIN @ |-> [@[i] EXCEPT !.timestamp = 0]]]

StepName(node) ==
    CASE node = "intent_recognition" -> "intent_recognized"
      [] node = "sheets_parsing" -> "sheets_parsed"
      [] node = "ip_allocation" -> "ips_allocated"
      [] node = "dns_creation" -> "dns_created"
      [] node = "response_formatter" -> "response_formatted"

\* C25: after every stage, whether it succeeded or failed, current_step
\* names that stage; at the end of the run it names response_formatter.
C25_CurrentStepIsLastStage ==
    /\ executed # << >> => state.current_step = StepName(Last(executed))
    /\ pc = END => state.current_step = "response_formatted"

\* C26: a stage before the formatter that runs with state.error already set
\* makes no collaborator call and leaves ip_allocations and dns_records as
\* they are.
C26_NoWorkAfterError ==
    [][ (~Falsy(state.error)
         /\ pc \in {"sheets_parsing", "ip_allocation", "dns_creation"}) =>
           /\ calls' = calls
           /\ state'.ip_allocations = state.ip_allocations
           /\ state'.dns_records = state.dns_records ]_vars

\* the fetch of a cluster's sheet failed, and ip_allocation and
\* dns_creation have both run after it
C26_Witness ==
    /\ state.intent = "CREATE_CLUSTER"
    /\ RunOf("sheets_parsing") # 0
    /\ errors[RunOf("sheets_parsing")] = "Error fetching sheet: HTTP status"
    /\ RunOf("ip_allocation") # 0
    /\ RunOf("dns_creation") # 0
    /\ Last(calls).call = "GET"

\* the first error a stage of the run has returned with, NoneStr if none has
FirstError ==
    IF \E i \in DOMAIN errors : ~Falsy(errors[i])
    THEN errors[CHOOSE i \in DOMAIN errors :
                   /\ ~Falsy(errors[i])
                   /\ \A j \in 1..(i - 1) : Falsy(errors[j])]
    ELSE NoneStr

\* C27: once a stage has set state.error no later stage clears it or gives
\* it another value, and the error in the response is the error of the
\* first stage that failed.
C27_ErrorKept ==
    /\ ~Falsy(FirstError) => state.error = FirstError
    /\ (response.sent /\ ~Falsy(FirstError)) =>
          response.message = ErrorMessage(FirstError)

FixedOrder ==
    << "intent_recognition", "sheets_parsing", "ip_allocation",
       "dns_creation", "response_formatter" >>

\* the graph node the run is in or about to enter
CurrentNode == IF pc = "intent_recognition_await" THEN "intent_recognition" ELSE pc

\* C28: the stages a run has executed are distinct and in the order
\* intent_recognition, sheets_parsing, ip_allocation, dns_creation,
\* response_formatter, and the one stage the run is in or enters next comes
\* after all of them: no stage runs twice.
C28_EachStageOnceInOrder ==
    /\ \A i \in DOMAIN executed : PositionIn(FixedOrder, executed[i]) # 0
    /\ \A i, j \in DOMAIN executed :
          i < j => PositionIn(FixedOrder, executed[i])
                     < PositionIn(FixedOrder, executed[j])
    /\ pc # END =>
          /\ PositionIn(FixedOrder, CurrentNode) # 0
          /\ \A i \in DOMAIN executed :
                PositionIn(FixedOrder, executed[i])
                   < PositionIn(FixedOrder, CurrentNode)

\* a run through all five stages
C28_Witness ==
    /\ pc = END
    /\ executed = FixedOrder

\* C29: when ip_allocation has run without parsed sheet data or without a
\* subnet, it has returned with the missing-data error, the allocator has
\* not been called, and the allocation list is empty.
C29_MissingPrecondition ==
    (RunOf("ip_allocation") # 0
     /\ (SheetsDataFalsy(state.sheets_data) \/ state.subnet.kind = "none")) =>
        /\ errors[RunOf("ip_allocation")]
              = "Missing sheet data or subnet information"
        /\ SelectSeq(calls, IsAllocatorCall) = << >>
        /\ state.ip_allocations = << >>

\* a sheet parsed with node IPs, and no subnet from the sheet or the request
C29_Witness ==
    /\ RunOf("ip_allocation") # 0
    /\ state.sheets_data.present
    /\ state.sheets_data.node_ips # << >>
    /\ state.subnet = NoSubnet
    /\ pc = END

\* C30: when dns_creation has run for CREATE_DNS_RECORD without an fqdn or
\* without an IP address, it has returned with an error, no create-record
\* call has been made, dns_records is empty, and the response of the run is
\* that error and not a success message.
C30_MissingFqdnOrIp ==
    (RunOf("dns_creation") # 0 /\ state.intent = "CREATE_DNS_RECORD"
     /\ (Falsy(state.fqdn) \/ Falsy(state.ip_address))) =>
        /\ errors[RunOf("dns_creation")]
              = "Missing FQDN or IP address for DNS record"
        /\ SelectSeq(calls, IsCreateRecordCall) = << >>
        /\ state.dns_records = << >>
        /\ FormatterHasRun =>
              state.response_message
                 = ErrorMessage("Missing FQDN or IP address for DNS record")
        /\ response.sent =>
              /\ response.message
                    = ErrorMessage("Missing FQDN or IP address for DNS record")
              /\ response.message.kind # "DNS record created successfully!"

\* a request for a record with an fqdn and no IP address, answered
C30_Witness ==
    /\ response.sent
    /\ state.intent = "CREATE_DNS_RECORD"
    /\ state.fqdn = "test.example.com"
    /\ Falsy(state.ip_address)

\* ------------------------------------------------------------- claim C31
\* C31: at the end of every run the response message of the state is not
\* empty, whatever the intent and whatever the stages have returned, and
\* the response carries that message: chat_endpoint never falls back to its
\* placeholder text.
C31_MessageNeverEmpty ==
    /\ pc = END =>
          /\ state.response_message # NoMessage
          /\ state.response_message.kind # "empty"
    /\ response.sent =>
          /\ response.message = state.response_message
          /\ response.message # Placeholder

\* a DNS record created: the formatter assigns nothing for this intent and
\* the response carries the message that dns_creation has left
C31_Witness ==
    /\ response.sent
    /\ state.intent = "CREATE_DNS_RECORD"
    /\ Falsy(state.error)
    /\ state.current_step = "response_formatted"
    /\ response.message.kind = "DNS record created successfully!"

=============================================================================
